---- MODULE Spec2Model ----
(***************************************************************************)
(* The connection state machine of msql-srv (src/lib.rs): the handshake    *)
(* (MysqlIntermediary::init), the command loop (MysqlIntermediary::run)     *)
(* and the prepared-statement table the loop owns.                          *)
(*                                                                         *)
(* One step of the model is one whole call of init, or one whole iteration *)
(* of the `while let` loop of run: read a packet, set_seq, parse, dispatch, *)
(* flush.  The order of the things an iteration does is recorded, in code  *)
(* order, in last.events; the packets it puts on the transport in wire.    *)
(*                                                                         *)
(* The switchable transport of src/tls.rs (SwitchableConn and its           *)
(* prepending BufReader) is an object of its own, which init does not use: *)
(* its calls are the steps of a second specification, ConnSpec.            *)
(*                                                                         *)
(* packet.rs, commands.rs, params.rs, writers.rs and resultset.rs are not   *)
(* part of the sources at hand; the definitions that stand for them follow *)
(* the specification text and are marked so in MODEL_MAP.json.              *)
(***************************************************************************)
EXTENDS Integers, Sequences, FiniteSets, TLC

VARIABLES
    phase,       \* where run_on is: "Handshake" (before init), "Command" (at the head of
                 \* the loop of run, about to call reader.next), "AfterStep" (init or an
                 \* iteration has just ended), "Closed" (run_on has returned or panicked)
    result,      \* what run_on returned: [kind, why]; kind "running" while it has not
    writer,      \* self.writer: [seq, buf]
    wire,        \* the packets the step that just ended wrote to the transport, in order
    stmts,       \* the statement table of run: id -> StatementData
    nread,       \* number of command packets run has read
    nlong,       \* number of SEND_LONG_DATA packets among them
    last,        \* observation of the step that just ended: the packet it read (the
                 \* locals seq and cmd of the iteration), what it did, in code order
    live,        \* history: ids a PREPARE reply registered, no CLOSE processed since
    closed,      \* history: ids a CLOSE was processed for, no PREPARE reply since
    arrived,     \* history: per (id, param) the SEND_LONG_DATA payloads received since
                 \* the last on_execute / PREPARE reply for id, one entry per packet
    conn,        \* a SwitchableConn of tls.rs: [slot, rd]; slot is the variant in its
                 \* Option ("Plain", "Tls", or "None" when it is empty), rd the BufReader
                 \* that variant holds: [replaced, inner]
    io           \* observation of the call on conn that just returned: [op, ret, why,
                 \* got], and history: owed, the bytes the replace calls and the inner
                 \* stream still owe the reader, in order; due, the bytes of owed the
                 \* last read stood for; nrep, the number of replace calls; variants,
                 \* the variants conn has held

vars == <<phase, result, writer, wire, stmts, nread, nlong, last, live, closed, arrived,
          conn, io>>

-----------------------------------------------------------------------------
(* Bounds of the exploration *)

MaxCmds == 4        \* command packets per connection
MaxLongData == 2    \* SEND_LONG_DATA packets per connection
MaxReplace == 2     \* replace calls on one SwitchableConn

StmtIds == {1, 2}                        \* statement ids a backend assigns
ParamIdx == {0, 1}                       \* parameter indexes a client names
Payloads == {<<1>>, <<2, 3>>}            \* SEND_LONG_DATA payloads (bytes)
InSeqs == {0, 255}                       \* sequence ids of inbound command packets
HsSeqs == {1, 2, 255}                    \* sequence ids of inbound handshake packets
ParamCounts == {2}                       \* len(params) a backend gives to reply()
TypeLists == {<<"LONG", "LONG">>, <<"BLOB", "BLOB">>}  \* type tables of an EXECUTE

-----------------------------------------------------------------------------
(* Small helpers *)

Running == [kind |-> "running", why |-> ""]
RetOk == [kind |-> "Ok", why |-> ""]
Err(why) == [kind |-> "Err", why |-> why]
Panic(why) == [kind |-> "Panic", why |-> why]

RECURSIVE Flatten(_)
Flatten(ss) == IF ss = <<>> THEN <<>> ELSE Head(ss) \o Flatten(Tail(ss))

Has(s, e) == \E i \in 1..Len(s) : s[i] = e
RemoveKey(f, k) == [x \in DOMAIN f \ {k} |-> f[x]]
PutKey(f, k, v) == [x \in DOMAIN f \cup {k} |-> IF x = k THEN v ELSE f[x]]
EmptyMap == [x \in {} |-> 0]

-----------------------------------------------------------------------------
(* Query texts, as sequences of characters.  BAD stands for a byte that is  *)
(* not valid UTF-8, BACKTICK for the backquote character.                   *)

BAD == "\\xff"
BACKTICK == "bq"
T_SELECT_AT == <<"S","E","L","E","C","T"," ","@","@">>
T_select_at == <<"s","e","l","e","c","t"," ","@","@">>
T_USE == <<"U","S","E"," ">>
T_use == <<"u","s","e"," ">>
T_max_allowed_packet ==
    <<"m","a","x","_","a","l","l","o","w","e","d","_","p","a","c","k","e","t">>

QueryTexts ==
    { T_SELECT_AT \o T_max_allowed_packet,
      T_select_at \o T_max_allowed_packet,
      T_SELECT_AT \o <<"v">>,
      T_SELECT_AT \o T_max_allowed_packet \o <<";">>,
      T_USE \o <<" ", BACKTICK, "a", BACKTICK, ";", " ">>,
      T_use \o <<"a">>,
      T_USE \o <<BAD>>,
      <<"S","E","L","E","C","T"," ","1">>,
      <<"S","E","L","E","C","T"," ",BAD>> }

starts_with(q, p) == Len(q) >= Len(p) /\ SubSeq(q, 1, Len(p)) = p
from_utf8_ok(q) == ~Has(q, BAD)

Whitespace == {" ", "\t", "\n"}
RECURSIVE trim_start_in(_, _)
trim_start_in(s, cs) ==
    IF s # <<>> /\ Head(s) \in cs THEN trim_start_in(Tail(s), cs) ELSE s
RECURSIVE trim_end_in(_, _)
trim_end_in(s, cs) ==
    IF s # <<>> /\ s[Len(s)] \in cs THEN trim_end_in(SubSeq(s, 1, Len(s) - 1), cs) ELSE s
trim(s) == trim_end_in(trim_start_in(s, Whitespace), Whitespace)
trim_end_matches(s, c) == trim_end_in(s, {c})
trim_matches(s, c) == trim_end_in(trim_start_in(s, {c}), {c})

-----------------------------------------------------------------------------
(* PacketWriter and the packet writers                                      *)

Pkt(kind, info) == [kind |-> kind, info |-> info]

PacketWriter_new == [seq |-> 0, buf |-> <<>>]
set_seq(w, n) == [w EXCEPT !.seq = n]
write_packet(w, p) == [w EXCEPT !.buf = Append(@, p)]
\* flush: every buffered packet gets a header with seq, seq+1, ... (wrapping)
flush_sent(w) ==
    [i \in 1..Len(w.buf) |->
        [seq |-> (w.seq + i - 1) % 256, kind |-> w.buf[i].kind, info |-> w.buf[i].info]]
flush_writer(w) == [seq |-> (w.seq + Len(w.buf)) % 256, buf |-> <<>>]

write_ok_packet(w, rows, last_insert_id) ==
    write_packet(w, Pkt("OK", <<rows, last_insert_id>>))
write_err(w, code) == write_packet(w, Pkt("ERR", code))
RECURSIVE write_all(_, _)
write_all(w, ps) == IF ps = <<>> THEN w ELSE write_all(write_packet(w, Head(ps)), Tail(ps))
\* write_column_definitions(cols, w, true, true): the definitions, then EOF
write_column_definitions(w, cols) ==
    write_all(w, [i \in 1..Len(cols) |-> Pkt("COLDEF", cols[i])] \o <<Pkt("EOF", 0)>>)

-----------------------------------------------------------------------------
(* Arithmetic on bytes *)

bit(n, k) == (n \div (2 ^ k)) % 2
or_u8(a, b) ==
    LET or_bit(k) == IF bit(a, k) = 1 \/ bit(b, k) = 1 THEN 2 ^ k ELSE 0
    IN or_bit(0) + or_bit(1) + or_bit(2) + or_bit(3)
       + or_bit(4) + or_bit(5) + or_bit(6) + or_bit(7)

\* `seq + 1` on the one-byte sequence id.  Below 255 it is seq + 1.  At 255 the
\* addition overflows the u8: a build with overflow checks panics there, a build
\* without them wraps to 0.  ovf says which of the two the build does.
Overflows(seq) == IF seq = 255 THEN {"wrap", "panic"} ELSE {"wrap"}
seq_plus_1(seq, ovf) ==
    IF seq < 255 THEN [panic |-> FALSE, val |-> seq + 1]
    ELSE [panic |-> (ovf = "panic"), val |-> 0]

-----------------------------------------------------------------------------
(* The observation a step leaves behind *)

\* op, seq, stmt, flag: the packet read (flag: new-params-bound of an EXECUTE, the
\* CLIENT_SSL bit of a handshake; stmt of a handshake: the sequence id of the packet
\* read from the TLS stream, 0 when there was no switch).  events: what the step did.  seen, prev: the
\* long_data on_execute was given, and the statement's bound_types and params before
\* it.  cfg, conn: for init, the shim's tls_config() and the stream it ended on.
NoSeen == EmptyMap
NoPrev == [bound_types |-> <<>>, params |-> 0]
NoTls == [some |-> FALSE, require_tls |-> FALSE]
Observation(op, seq, stmt, flag, events, seen, prev, cfg, c) ==
    [op |-> op, seq |-> seq, stmt |-> stmt, flag |-> flag, events |-> events,
     seen |-> seen, prev |-> prev, cfg |-> cfg, conn |-> c]
LastRec(op, seq, stmt, flag, events, seen, prev) ==
    Observation(op, seq, stmt, flag, events, seen, prev, NoTls, "")
Nothing == LastRec("", 0, 0, FALSE, <<>>, NoSeen, NoPrev)

-----------------------------------------------------------------------------
(* MysqlIntermediary::init *)

TlsConfigs == {NoTls} \cup {[some |-> TRUE, require_tls |-> r] : r \in BOOLEAN}

\* a mutant of capabilities: the SSL support flag is never set
capabilities_without_ssl(cfg) == <<0, 66>>

\* the two capability bytes of the greeting
capabilities(cfg) == <<0, IF cfg.some THEN or_u8(66, 8) ELSE 66>>
\* line 266: the two bytes of the extended (upper) capabilities
extended_capabilities == <<0, 0>>

HsFailures == {"eof", "ioerr", "incomplete", "nom_eof", "nom_other"}
Hs(kind, seq, ssl) == [kind |-> kind, seq |-> seq, ssl |-> ssl]
HsPackets ==
    {Hs(k, 1, FALSE) : k \in HsFailures}
    \cup {Hs("ok", s, ssl) : s \in HsSeqs, ssl \in BOOLEAN}

\* what reader.next() and commands::client_handshake make of the client's packet
hs_error(hs) ==
    CASE hs.kind = "eof" -> Err("ConnectionAborted")
      [] hs.kind = "ioerr" -> Err("io")
      [] hs.kind = "incomplete" -> Err("UnexpectedEof")
      [] hs.kind = "nom_eof" -> Err("UnexpectedEof")
      [] hs.kind = "nom_other" -> Err("InvalidData")
      [] OTHER -> RetOk

InitInputs ==
    [wfail : {0, 1, 2}, hs1 : HsPackets, remaining : {0, 1}, hs2 : HsPackets,
     certs : {"Err", "None", "Some"}, ovf : {"wrap", "panic"}]

InitOut(res, c, w, sent, events) ==
    [result |-> res, conn |-> c, writer |-> w, wire |-> sent, events |-> events]

\* a mutant of init_ok: the OK is numbered 2 wherever the handshake left the writer
init_ok_numbered_2(c, w, sent, events, in) ==
    LET w1 == write_ok_packet(set_seq(w, 2), 0, 0)
    IN IF in.wfail = 2
       THEN InitOut(Err("io"), c, w1, sent, events \o <<"write_ok", "flush_failed">>)
       ELSE InitOut(RetOk, c, flush_writer(w1), sent \o flush_sent(w1),
                    events \o <<"write_ok", "flush">>)

\* lines 377-380: the OK that ends the handshake, and its flush
init_ok(c, w, sent, events, in) ==
    LET w1 == write_ok_packet(w, 0, 0)
    IN IF in.wfail = 2
       THEN InitOut(Err("io"), c, w1, sent, events \o <<"write_ok", "flush_failed">>)
       ELSE InitOut(RetOk, c, flush_writer(w1), sent \o flush_sent(w1),
                    events \o <<"write_ok", "flush">>)

\* a mutant of init_require_tls: the error is returned, the client is told nothing
init_require_tls_silent(c, w, sent, events, in) ==
    InitOut(Err("client authentication failed"), c, w, sent, events)

\* lines 361-374: a client without SSL, a configuration with require_tls
init_require_tls(c, w, sent, events, in) ==
    LET w1 == write_err(w, "ER_ACCESS_DENIED_ERROR")
    IN IF in.wfail = 2
       THEN InitOut(Err("io"), c, w1, sent, events \o <<"write_err", "flush_failed">>)
       ELSE InitOut(Err("client authentication failed"), c, flush_writer(w1),
                    sent \o flush_sent(w1), events \o <<"write_err", "flush">>)

\* a mutant of client_certs: after_tls_handshake is called whatever the client presented
client_certs_always_notifying(w, sent, events, in) ==
    CASE in.certs = "Err" -> InitOut(Err("io"), "Tls", w, sent, events \o <<"certs_err">>)
      [] in.certs = "Some" ->
           init_ok("Tls", w, sent, events \o <<"certs_some", "after_tls_handshake">>, in)
      [] OTHER ->
           init_ok("Tls", w, sent, events \o <<"certs_none", "after_tls_handshake">>, in)

\* lines 358-360, and from there to the OK: `if let Some(certs) = stream3.client_certs()?`
client_certs(w, sent, events, in) ==
    CASE in.certs = "Err" -> InitOut(Err("io"), "Tls", w, sent, events \o <<"certs_err">>)
      [] in.certs = "Some" ->
           init_ok("Tls", w, sent, events \o <<"certs_some", "after_tls_handshake">>, in)
      [] OTHER -> init_ok("Tls", w, sent, events \o <<"certs_none">>, in)

\* a mutant of init_tls: without a configuration the client is sent ACCESS_DENIED
init_tls_denying(cfg, w, sent, events, in) ==
    IF ~cfg.some
    THEN LET w1 == write_err(w, "ER_ACCESS_DENIED_ERROR")
         IN InitOut(Err("InvalidData"), "Plain", flush_writer(w1), sent \o flush_sent(w1),
                    events \o <<"write_err", "flush">>)
    ELSE IF in.remaining # 0
    THEN InitOut(Panic("assert remaining == 0"), "Plain", w, sent,
                 events \o <<"read_ahead">>)
    ELSE LET ev1 == events \o <<"switch_to_tls", "read">>
             sp == seq_plus_1(in.hs2.seq, in.ovf)
         IN IF in.hs2.kind \in {"eof", "ioerr"}
            THEN InitOut(hs_error(in.hs2), "Tls", w, sent, ev1)
            ELSE IF in.hs2.kind # "ok"
            THEN InitOut(hs_error(in.hs2), "Tls", w, sent, ev1 \o <<"parse">>)
            ELSE IF sp.panic
            THEN InitOut(Panic("seq + 1 overflows"), "Tls", w, sent, ev1 \o <<"parse">>)
            ELSE client_certs(set_seq(w, sp.val), sent, ev1 \o <<"parse", "set_seq">>, in)

\* lines 305-360: the client asked for SSL
init_tls(cfg, w, sent, events, in) ==
    IF ~cfg.some THEN InitOut(Err("InvalidData"), "Plain", w, sent, events)
    ELSE IF in.remaining # 0
    THEN InitOut(Panic("assert remaining == 0"), "Plain", w, sent,
                 events \o <<"read_ahead">>)
    ELSE LET ev1 == events \o <<"switch_to_tls", "read">>
             sp == seq_plus_1(in.hs2.seq, in.ovf)
         IN IF in.hs2.kind \in {"eof", "ioerr"}
            THEN InitOut(hs_error(in.hs2), "Tls", w, sent, ev1)
            ELSE IF in.hs2.kind # "ok"
            THEN InitOut(hs_error(in.hs2), "Tls", w, sent, ev1 \o <<"parse">>)
            ELSE IF sp.panic
            THEN InitOut(Panic("seq + 1 overflows"), "Tls", w, sent, ev1 \o <<"parse">>)
            ELSE client_certs(set_seq(w, sp.val), sent, ev1 \o <<"parse", "set_seq">>, in)

init(cfg, in) ==
    LET w0 == write_packet(PacketWriter_new, Pkt("GREETING", capabilities(cfg) \o extended_capabilities))
        ev0 == <<"write_greeting">>
        sp == seq_plus_1(in.hs1.seq, in.ovf)
    IN IF in.wfail = 1 THEN InitOut(Err("io"), "Plain", w0, <<>>, ev0 \o <<"flush_failed">>)
       ELSE LET w1 == flush_writer(w0)
                sent == flush_sent(w0)
                ev1 == ev0 \o <<"flush", "read">>
            IN IF in.hs1.kind \in {"eof", "ioerr"}
               THEN InitOut(hs_error(in.hs1), "Plain", w1, sent, ev1)
               ELSE IF in.hs1.kind # "ok"
               THEN InitOut(hs_error(in.hs1), "Plain", w1, sent, ev1 \o <<"parse">>)
               ELSE IF sp.panic
               THEN InitOut(Panic("seq + 1 overflows"), "Plain", w1, sent, ev1 \o <<"parse">>)
               ELSE LET w2 == set_seq(w1, sp.val)
                        ev2 == ev1 \o <<"parse", "set_seq">>
                    IN IF in.hs1.ssl THEN init_tls(cfg, w2, sent, ev2, in)
                       ELSE IF cfg.some /\ cfg.require_tls
                       THEN init_require_tls("Plain", w2, sent, ev2, in)
                       ELSE init_ok("Plain", w2, sent, ev2, in)

\* a mutant of run_on_next: run is entered whatever init returned
run_on_next_unchecked(res) == "AfterStep"

\* lines 247-248: `mi = mi.init()?; mi.run()`
run_on_next(res) == IF res.kind = "Ok" THEN "AfterStep" ELSE "Closed"

-----------------------------------------------------------------------------
(* src/tls.rs: SwitchableConn, an Option of Plain(BufReader) or Tls(stream  *)
(* over the BufReader), and BufReader, a std BufReader with an optional     *)
(* Cursor of bytes to hand out before the inner stream's.  A stream is the  *)
(* sequence of bytes it has still to deliver.                               *)

InnerStream == <<7, 8>>          \* the bytes the transport below conn will deliver
ReplaceData == {<<1>>, <<2, 3>>}  \* the arguments of replace
ReadSizes == {0, 1, 2}           \* the lengths of the buffers read is called with

Smaller(a, b) == IF a < b THEN a ELSE b

NoReplaced == [some |-> FALSE, v |-> <<>>, pos |-> 0]

\* Cursor::new
Cursor_new(data) == [some |-> TRUE, v |-> data, pos |-> 0]

\* Read for Cursor<Vec<u8>>: the bytes from the position on, as many as buf takes; the
\* position moves by their number
Cursor_read(r, n) ==
    LET start == Smaller(r.pos, Len(r.v))
        k == Smaller(n, Len(r.v) - start)
    IN [got |-> SubSeq(r.v, start + 1, start + k), r |-> [r EXCEPT !.pos = @ + k]]

\* the numbers of bytes one read of the inner stream into a buffer of length n may give
InnerReads(inner, n) ==
    IF n = 0 \/ inner = <<>> THEN {0} ELSE 1..Smaller(n, Len(inner))

\* self.inner.read(buf), giving k bytes
inner_read(rd, k) ==
    [got |-> SubSeq(rd.inner, 1, k),
     rd |-> [rd EXCEPT !.inner = SubSeq(@, k + 1, Len(@))]]

\* tls.rs 82-87
BufReader_new(rw) == [replaced |-> NoReplaced, inner |-> rw]

\* tls.rs 89-100: with a cursor at hand the data is put before the bytes of its vector,
\* the cursor's position stays; without one a new cursor is made
BufReader_replace(rd, data) ==
    IF rd.replaced.some
    THEN [rd EXCEPT !.replaced.v = data \o @]
    ELSE [rd EXCEPT !.replaced = Cursor_new(data)]

\* tls.rs 102-117: n is buf.len(), k what the inner stream gives if it is asked
BufReader_read(rd, n, k) ==
    IF rd.replaced.some
    THEN LET c == Cursor_read(rd.replaced, n)
         IN IF Len(c.got) # 0
            THEN [got |-> c.got, rd |-> [rd EXCEPT !.replaced = c.r]]
            ELSE inner_read([rd EXCEPT !.replaced = NoReplaced], k)
    ELSE inner_read(rd, k)

\* tls.rs 50-52
SwitchableConn_new(rw) == [slot |-> "Plain", rd |-> BufReader_new(rw)]

\* the Option after take(), when nothing was put back: the BufReader is dropped
Taken == [slot |-> "None", rd |-> BufReader_new(<<>>)]

\* tls.rs 8-15: ServerConnection::new(config).unwrap(), then Ok(stream)
create_stream(cfgok) == IF cfgok THEN RetOk ELSE Panic("create_stream unwrap")

\* tls.rs 54-66: what switch_to_tls leaves in conn (c) and returns (ret)
switch_to_tls(c, cfgok) ==
    IF c.slot = "Plain"
    THEN (IF create_stream(cfgok).kind = "Ok"
          THEN [c |-> [c EXCEPT !.slot = "Tls"], ret |-> RetOk]
          ELSE [c |-> Taken, ret |-> create_stream(cfgok)])
    ELSE IF c.slot = "Tls"
    THEN [c |-> Taken, ret |-> Err("tls variant found when plain was expected")]
    ELSE [c |-> c, ret |-> Panic("unreachable")]

\* tls.rs 68-73
SwitchableConn_replace(c, data) ==
    IF c.slot = "Plain"
    THEN [c |-> [c EXCEPT !.rd = BufReader_replace(@, data)], ret |-> RetOk]
    ELSE [c |-> c, ret |-> Panic("can not replace raw bytes.")]

\* self.0.as_mut().unwrap() of tls.rs 26, 35 and 42
as_mut_unwrap(c) == IF c.slot = "None" THEN Panic("unwrap on None") ELSE RetOk

\* tls.rs 24-31.  In the Tls variant it is the TLS stream that reads the BufReader, with
\* buffers of its own; got is what the BufReader hands out, in either variant.
SwitchableConn_read(c, n, k) ==
    IF as_mut_unwrap(c).kind # "Ok"
    THEN [c |-> c, ret |-> as_mut_unwrap(c), got |-> <<>>]
    ELSE LET r == BufReader_read(c.rd, n, k)
         IN [c |-> [c EXCEPT !.rd = r.rd], ret |-> RetOk, got |-> r.got]

\* tls.rs 34-39 and 119-122: the bytes go to the transport below, conn keeps none
SwitchableConn_write(c) == [c |-> c, ret |-> as_mut_unwrap(c)]

\* tls.rs 41-46 and 124-126
SwitchableConn_flush(c) == [c |-> c, ret |-> as_mut_unwrap(c)]

Called(op, r, got, due, owed, nrep, c) ==
    [op |-> op, ret |-> r.kind, why |-> r.why, got |-> got, due |-> due, owed |-> owed,
     nrep |-> nrep,
     variants |-> IF c.slot \in {"Plain", "Tls"} /\ c.slot # io.variants[Len(io.variants)]
                  THEN Append(io.variants, c.slot) ELSE io.variants]

NoCall ==
    [op |-> "new", ret |-> "Ok", why |-> "", got |-> <<>>, due |-> <<>>,
     owed |-> InnerStream, nrep |-> 0, variants |-> <<"Plain">>]

\* run_on, lines 240-248, up to the entry of run.  The shim, and with it what its
\* tls_config() returns, is an argument of run_on.
Handshake ==
    /\ phase = "Handshake"
    /\ \E cfg \in TlsConfigs, in \in InitInputs :
         LET o == init(cfg, in)
         IN /\ phase' = run_on_next(o.result)
            /\ result' = IF o.result.kind = "Ok" THEN Running ELSE o.result
            /\ writer' = o.writer
            /\ wire' = o.wire
            /\ last' = Observation("init", in.hs1.seq,
                                   IF Has(o.events, "switch_to_tls") THEN in.hs2.seq ELSE 0,
                                   in.hs1.ssl,
                                   [i \in 1..Len(o.events) |-> <<o.events[i], 0>>],
                                   NoSeen, NoPrev, cfg, o.conn)
    /\ stmts' = EmptyMap
    /\ UNCHANGED <<nread, nlong, live, closed, arrived, conn, io>>

\* line 387, the head of the loop: the locals of the iteration that ended are gone
LoopHead ==
    /\ phase = "AfterStep"
    /\ phase' = "Command"
    /\ last' = Nothing
    /\ wire' = <<>>
    /\ UNCHANGED <<result, writer, stmts, nread, nlong, live, closed, arrived, conn, io>>

Init ==
    /\ phase = "Handshake"
    /\ result = Running
    /\ writer = PacketWriter_new
    /\ wire = <<>>
    /\ stmts = EmptyMap
    /\ nread = 0
    /\ nlong = 0
    /\ last = Nothing
    /\ live = {}
    /\ closed = {}
    /\ arrived = [i \in StmtIds |-> [p \in ParamIdx |-> <<>>]]
    /\ conn = SwitchableConn_new(InnerStream)
    /\ io = NoCall

-----------------------------------------------------------------------------
(* The backend (a MysqlShim) and the writer handles it is given.  What a    *)
(* callback does with its handle, and what it returns, is the backend's     *)
(* choice: b = [writes, ret, id, n, parse].                                 *)

Backend(writes, ret, id, n, parse) ==
    [writes |-> writes, ret |-> ret, id |-> id, n |-> n, parse |-> parse]

NoBackend == Backend("none", "Ok", 0, 0, FALSE)
QueryBackends ==
    { Backend("rows", "Ok", 0, 0, FALSE), Backend("none", "Ok", 0, 0, FALSE),
      Backend("error", "Err", 0, 0, FALSE) }
\* lines 182-184, the on_init of the trait, for a backend that does not override it:
\* `Ok(())`, the InitWriter it was given is dropped unused
DefaultOnInit == Backend("default", "Ok", 0, 0, FALSE)
InitBackends ==
    { DefaultOnInit, Backend("ok", "Ok", 0, 0, FALSE),
      Backend("none", "Err", 0, 0, FALSE) }
PrepareBackends ==
    { Backend("reply", "Ok", id, n, FALSE) : id \in StmtIds, n \in ParamCounts }
    \cup { Backend("error", "Ok", 0, 0, FALSE), Backend("none", "Err", 0, 0, FALSE) }
ExecuteBackends ==
    { Backend("completed", "Ok", 0, 0, parse) : parse \in BOOLEAN }
    \cup { Backend("none", "Err", 0, 0, TRUE) }

StatementData(n) == [long_data |-> EmptyMap, bound_types |-> <<>>, params |-> n]

MaxAllowedPacketCol == [column |-> "@@max_allowed_packet", coltype |-> "MYSQL_TYPE_LONG",
                        colflags |-> "UNSIGNED_FLAG"]
NotImplementedCol == [column |-> "not implemented", coltype |-> "MYSQL_TYPE_SHORT",
                      colflags |-> "UNSIGNED_FLAG"]
BackendCol == [column |-> "a", coltype |-> "MYSQL_TYPE_LONGLONG", colflags |-> ""]

\* QueryResultWriter: start(cols), rows, finish
write_result_set(w, cols, rows) ==
    write_all(write_column_definitions(w, cols),
              [i \in 1..Len(rows) |-> Pkt("ROW", rows[i])] \o <<Pkt("EOF", 0)>>)
\* QueryResultWriter::completed
completed(w, rows, last_insert_id) == write_ok_packet(w, rows, last_insert_id)

\* what the backend's use of a QueryResultWriter / InitWriter leaves in the writer
backend_writes(w, b) ==
    CASE b.writes = "completed" -> completed(w, 0, 0)
      [] b.writes = "ok" -> write_ok_packet(w, 0, 0)
      [] b.writes = "rows" -> write_result_set(w, <<BackendCol>>, <<42>>)
      [] b.writes = "error" -> write_err(w, "ER_UNKNOWN_ERROR")
      [] OTHER -> w

\* StatementMetaWriter::reply(id, params, columns): the prepare response, and the
\* registration of id in the table
reply_writes(w, id, n) ==
    write_column_definitions(write_packet(w, Pkt("PREPARE_OK", <<id, n>>)),
                             [i \in 1..n |-> BackendCol])
reply_register(st, id, n) == PutKey(st, id, StatementData(n))

\* ParamParser over the EXECUTE payload and the statement's state: a backend that
\* iterates the parameters makes it replace bound_types when the payload says
\* new-params-bound
parse_params(state, flag, types, parse) ==
    IF parse /\ flag
    THEN [state EXCEPT !.bound_types = SubSeq(types, 1, state.params)]
    ELSE state

-----------------------------------------------------------------------------
(* MysqlIntermediary::run: the arms of `match cmd`.  Each gives             *)
(* [ret, why, w, st, events, seen, prev]: how the arm ends ("Ok": falls     *)
(* through to the flush, "Err": `?` returns from run, "Break"), the writer  *)
(* and the table after it, the callbacks it made.                           *)

Cmd(op, stmt, param, data, flag, types, text) ==
    [op |-> op, stmt |-> stmt, param |-> param, data |-> data, flag |-> flag,
     types |-> types, text |-> text]

Arm(ret, why, w, st, events) ==
    [ret |-> ret, why |-> why, w |-> w, st |-> st, events |-> events,
     seen |-> NoSeen, prev |-> NoPrev]
\* a mutant of AfterCallback: the error a callback returns is dropped
AfterCallback_swallowing(b, w, st, events) ==
    Arm("Ok", "", w, st, events \o <<<<"handle", b.writes>>, <<"returned", b.ret>>>>)

\* `self.shim.on_*(..)?`: an Err of the callback returns from run as it is
AfterCallback(b, w, st, events) ==
    Arm(b.ret, IF b.ret = "Err" THEN "backend" ELSE "", w, st,
        events \o <<<<"handle", b.writes>>, <<"returned", b.ret>>>>)

\* a mutant of select_var: every variable gets the empty completed result
select_var_always_completed(w, q) == completed(w, 0, 0)

\* lines 392-410
select_var(w, q) ==
    LET var == SubSeq(q, Len(T_SELECT_AT) + 1, Len(q))
    IN IF var = T_max_allowed_packet
       THEN write_result_set(w, <<MaxAllowedPacketCol>>, <<67108864>>)
       ELSE completed(w, 0, 0)

\* a mutant of use_schema: the backtick quotes stay
use_schema_keeping_quotes(q) ==
    trim_end_matches(trim(SubSeq(q, Len(T_USE) + 1, Len(q))), ";")

\* line 417
use_schema(q) ==
    trim_matches(trim_end_matches(trim(SubSeq(q, Len(T_USE) + 1, Len(q))), ";"), BACKTICK)

\* a mutant of arm_query: only `SELECT @@max_allowed_packet` is answered by the loop,
\* any other `SELECT @@` query goes to on_query
arm_query_only_max_intercepted(w, q, b) ==
    IF (starts_with(q, T_SELECT_AT) \/ starts_with(q, T_select_at))
       /\ SubSeq(q, Len(T_SELECT_AT) + 1, Len(q)) = T_max_allowed_packet
    THEN Arm("Ok", "", select_var(w, q), stmts, <<>>)
    ELSE IF starts_with(q, T_USE) \/ starts_with(q, T_use)
    THEN IF ~from_utf8_ok(SubSeq(q, Len(T_USE) + 1, Len(q)))
         THEN Arm("Err", "InvalidData", w, stmts, <<>>)
         ELSE AfterCallback(b, backend_writes(w, b), stmts, <<<<"on_init", use_schema(q)>>>>)
    ELSE IF ~from_utf8_ok(q)
         THEN Arm("Err", "InvalidData", w, stmts, <<>>)
         ELSE AfterCallback(b, backend_writes(w, b), stmts, <<<<"on_query", q>>>>)

\* a mutant of arm_query: the loop adds an OK of its own after on_query returned
arm_query_acknowledged(w, q, b) ==
    IF starts_with(q, T_SELECT_AT) \/ starts_with(q, T_select_at)
    THEN Arm("Ok", "", select_var(w, q), stmts, <<>>)
    ELSE IF starts_with(q, T_USE) \/ starts_with(q, T_use)
    THEN IF ~from_utf8_ok(SubSeq(q, Len(T_USE) + 1, Len(q)))
         THEN Arm("Err", "InvalidData", w, stmts, <<>>)
         ELSE AfterCallback(b, backend_writes(w, b), stmts, <<<<"on_init", use_schema(q)>>>>)
    ELSE IF ~from_utf8_ok(q)
         THEN Arm("Err", "InvalidData", w, stmts, <<>>)
         ELSE AfterCallback(b, write_ok_packet(backend_writes(w, b), 0, 0), stmts,
                            <<<<"on_query", q>>>>)

\* lines 391-427
arm_query(w, q, b) ==
    IF starts_with(q, T_SELECT_AT) \/ starts_with(q, T_select_at)
    THEN Arm("Ok", "", select_var(w, q), stmts, <<>>)
    ELSE IF starts_with(q, T_USE) \/ starts_with(q, T_use)
    THEN IF ~from_utf8_ok(SubSeq(q, Len(T_USE) + 1, Len(q)))
         THEN Arm("Err", "InvalidData", w, stmts, <<>>)
         ELSE AfterCallback(b, backend_writes(w, b), stmts, <<<<"on_init", use_schema(q)>>>>)
    ELSE IF ~from_utf8_ok(q)
         THEN Arm("Err", "InvalidData", w, stmts, <<>>)
         ELSE AfterCallback(b, backend_writes(w, b), stmts, <<<<"on_query", q>>>>)

\* lines 428-439
arm_prepare(w, q, b) ==
    IF ~from_utf8_ok(q) THEN Arm("Err", "InvalidData", w, stmts, <<>>)
    ELSE IF b.writes = "reply"
    THEN AfterCallback(b, reply_writes(w, b.id, b.n), reply_register(stmts, b.id, b.n),
                       <<<<"on_prepare", q>>, <<"reply", b.id>>>>)
    ELSE AfterCallback(b, backend_writes(w, b), stmts, <<<<"on_prepare", q>>>>)

\* a mutant of clear_long_data: the buffers are kept
clear_long_data_kept(state) == state

\* line 452
clear_long_data(state) == [state EXCEPT !.long_data = EmptyMap]

\* lines 441 and 455-456: stmts.get_mut(&stmt)
lookup(st, stmt) == stmt \in DOMAIN st

\* a mutant of unknown_statement: the error is reported to the client and the loop goes on
unknown_statement_reported(w) ==
    Arm("Ok", "", write_err(w, "ER_UNKNOWN_STMT_HANDLER"), stmts, <<>>)

\* lines 441-446 and 457-462: `.ok_or_else(|| io::Error::new(InvalidData, ..))?`
unknown_statement(w) == Arm("Err", "InvalidData: unknown statement", w, stmts, <<>>)

\* lines 440-453
arm_execute(w, stmt, flag, types, b) ==
    IF ~lookup(stmts, stmt) THEN unknown_statement(w)
    ELSE LET state == stmts[stmt]
             parsed == parse_params(state, flag, types, b.parse)
             after == IF b.ret = "Err" THEN parsed ELSE clear_long_data(parsed)
         IN [ret |-> b.ret,
             why |-> IF b.ret = "Err" THEN "backend" ELSE "",
             w |-> backend_writes(w, b),
             st |-> [stmts EXCEPT ![stmt] = after],
             events |-> IF b.ret = "Err"
                        THEN <<<<"on_execute", stmt>>, <<"returned", b.ret>>>>
                        ELSE <<<<"on_execute", stmt>>, <<"returned", b.ret>>,
                               <<"clear", stmt>>>>,
             seen |-> state.long_data,
             prev |-> [bound_types |-> state.bound_types, params |-> state.params]]

\* a mutant of extend_long_data: a later packet replaces the buffer
extend_long_data_replacing(state, param, data) ==
    [state EXCEPT !.long_data = PutKey(@, param, data)]

\* lines 463-466: long_data.entry(param).or_insert_with(Vec::new).extend(data)
extend_long_data(state, param, data) ==
    [state EXCEPT !.long_data =
        PutKey(@, param, (IF param \in DOMAIN @ THEN @[param] ELSE <<>>) \o data)]

\* lines 454-467
arm_send_long_data(w, stmt, param, data) ==
    IF ~lookup(stmts, stmt) THEN unknown_statement(w)
    ELSE Arm("Ok", "", w, [stmts EXCEPT ![stmt] = extend_long_data(@, param, data)], <<>>)

\* a mutant of remove: the entry stays
remove_nothing(st, stmt) == st

\* line 470: stmts.remove(&stmt)
remove(st, stmt) == RemoveKey(st, stmt)

\* a mutant of arm_close: on_close is called, the entry is not removed
arm_close_keeping(w, stmt) == Arm("Ok", "", w, stmts, <<<<"on_close", stmt>>>>)

\* a mutant of arm_close: an id that is not in the table is an error
arm_close_checked(w, stmt) ==
    IF ~lookup(stmts, stmt) THEN unknown_statement(w)
    ELSE Arm("Ok", "", w, remove(stmts, stmt), <<<<"on_close", stmt>>, <<"remove", stmt>>>>)

\* lines 468-472
arm_close(w, stmt) ==
    Arm("Ok", "", w, remove(stmts, stmt), <<<<"on_close", stmt>>, <<"remove", stmt>>>>)

\* lines 473-481
arm_list_fields(w) ==
    Arm("Ok", "", write_column_definitions(w, <<NotImplementedCol>>), stmts, <<>>)

\* lines 482-491
arm_init(w, schema, b) ==
    IF ~from_utf8_ok(schema) THEN Arm("Err", "InvalidData", w, stmts, <<>>)
    ELSE AfterCallback(b, backend_writes(w, b), stmts, <<<<"on_init", schema>>>>)

\* lines 492-494
arm_ping(w) == Arm("Ok", "", write_ok_packet(w, 0, 0), stmts, <<>>)

\* a mutant of arm_quit: no break
arm_quit_continuing(w) == Arm("Ok", "", w, stmts, <<>>)

\* lines 495-497
arm_quit(w) == Arm("Break", "", w, stmts, <<>>)

-----------------------------------------------------------------------------
(* MysqlIntermediary::run: one iteration of the loop                        *)

\* a mutant of run_set_seq: the id is carried over from the previous response
run_set_seq_carried(w, next) == w

\* line 388: self.writer.set_seq(seq + 1), with the sum already computed
run_set_seq(w, next) == set_seq(w, next)

\* a mutant of end_of_iteration: the flush at the end of the iteration is missing
end_of_iteration_unflushed(a, wfail) ==
    CASE a.ret = "Err" ->
           [phase |-> "Closed", result |-> Err(a.why), writer |-> a.w, wire |-> <<>>,
            events |-> <<>>]
      [] a.ret = "Break" ->
           [phase |-> "Closed", result |-> RetOk, writer |-> a.w, wire |-> <<>>,
            events |-> <<<<"break", 0>>>>]
      [] OTHER ->
           [phase |-> "AfterStep", result |-> Running, writer |-> a.w, wire |-> <<>>,
            events |-> <<>>]

\* lines 495-501: what follows the arm.  Quit breaks out of the loop and run returns
\* Ok(()) without a flush; every other arm that did not return is followed by one flush.
end_of_iteration(a, wfail) ==
    CASE a.ret = "Err" ->
           [phase |-> "Closed", result |-> Err(a.why), writer |-> a.w, wire |-> <<>>,
            events |-> <<>>]
      [] a.ret = "Break" ->
           [phase |-> "Closed", result |-> RetOk, writer |-> a.w, wire |-> <<>>,
            events |-> <<<<"break", 0>>>>]
      [] OTHER ->
           IF wfail
           THEN [phase |-> "Closed", result |-> Err("io"), writer |-> a.w, wire |-> <<>>,
                 events |-> <<<<"flush_failed", 0>>>>]
           ELSE [phase |-> "AfterStep", result |-> Running, writer |-> flush_writer(a.w),
                 wire |-> flush_sent(a.w), events |-> <<<<"flush", 0>>>>]

\* the history variables follow the events of the iteration
live_after(cmd, a) ==
    CASE cmd.op = "Close" -> live \ {cmd.stmt}
      [] OTHER -> live \cup {a.events[i][2] : i \in {j \in 1..Len(a.events) : a.events[j][1] = "reply"}}
closed_after(cmd, a) ==
    CASE cmd.op = "Close" -> closed \cup {cmd.stmt}
      [] OTHER -> closed \ {a.events[i][2] : i \in {j \in 1..Len(a.events) : a.events[j][1] = "reply"}}
arrived_after(cmd, a) ==
    [id \in StmtIds |->
        IF \E i \in 1..Len(a.events) :
              a.events[i][1] \in {"reply", "on_execute"} /\ a.events[i][2] = id
        THEN [p \in ParamIdx |-> <<>>]
        ELSE IF cmd.op = "SendLongData" /\ cmd.stmt = id
        THEN [arrived[id] EXCEPT ![cmd.param] = Append(@, cmd.data)]
        ELSE arrived[id]]

\* the writer the arm of the match is given: the one set_seq(seq + 1) left
writer_at_dispatch(seq) == run_set_seq(writer, seq_plus_1(seq, "wrap").val)

\* One iteration, lines 387-500.  seq is the sequence id of the packet reader.next()
\* gave, cmd the command commands::parse made of it, a what the arm of the match it
\* selects does with writer_at_dispatch(seq); the transport may fail the flush.
RunIteration(seq, cmd, a) ==
    /\ phase = "Command"
    /\ nread < MaxCmds
    /\ nread' = nread + 1
    /\ nlong' = IF cmd.op = "SendLongData" THEN nlong + 1 ELSE nlong
    /\ UNCHANGED <<conn, io>>
    /\ \E ovf \in Overflows(seq) :
         LET sp == seq_plus_1(seq, ovf)
             head == <<<<"read", seq>>, <<"set_seq", sp.val>>, <<"parse", cmd.text>>>>
         IN IF sp.panic
            THEN /\ phase' = "Closed"
                 /\ result' = Panic("seq + 1 overflows")
                 /\ wire' = <<>>
                 /\ last' = LastRec(cmd.op, seq, cmd.stmt, cmd.flag, <<<<"read", seq>>>>,
                                    NoSeen, NoPrev)
                 /\ UNCHANGED <<writer, stmts, live, closed, arrived>>
            ELSE \E wfail \in (IF a.ret = "Ok" THEN BOOLEAN ELSE {FALSE}) :
                   LET e == end_of_iteration(a, wfail)
                   IN /\ phase' = e.phase
                      /\ result' = e.result
                      /\ writer' = e.writer
                      /\ wire' = e.wire
                      /\ stmts' = a.st
                      /\ last' = LastRec(cmd.op, seq, cmd.stmt, cmd.flag,
                                         head \o a.events \o e.events, a.seen, a.prev)
                      /\ live' = live_after(cmd, a)
                      /\ closed' = closed_after(cmd, a)
                      /\ arrived' = arrived_after(cmd, a)

NoText == <<>>
NoTypes == <<>>

\* the backends a QUERY with text q is tried with
BackendsOfQuery(q) ==
    IF starts_with(q, T_SELECT_AT) \/ starts_with(q, T_select_at) THEN QueryBackends
    ELSE IF starts_with(q, T_USE) \/ starts_with(q, T_use)
    THEN (IF from_utf8_ok(q) THEN InitBackends ELSE {NoBackend})
    ELSE (IF from_utf8_ok(q) THEN QueryBackends ELSE {NoBackend})

Query ==
    \E seq \in InSeqs, q \in QueryTexts :
      \E b \in BackendsOfQuery(q) :
        RunIteration(seq, Cmd("Query", 0, 0, <<>>, FALSE, NoTypes, q),
                     arm_query(writer_at_dispatch(seq), q, b))

Prepare ==
    \E seq \in InSeqs, b \in PrepareBackends :
        RunIteration(seq, Cmd("Prepare", 0, 0, <<>>, FALSE, NoTypes, <<"q">>),
                     arm_prepare(writer_at_dispatch(seq), <<"q">>, b))

\* an EXECUTE carries a type table when its new-params-bound flag is set
TypesOf(flag) == IF flag THEN TypeLists ELSE {NoTypes}

Execute ==
    \E seq \in InSeqs, stmt \in StmtIds, flag \in BOOLEAN :
      \E types \in TypesOf(flag), b \in (IF stmt \in DOMAIN stmts THEN ExecuteBackends
                                         ELSE {NoBackend}) :
        RunIteration(seq, Cmd("Execute", stmt, 0, <<>>, flag, types, NoText),
                     arm_execute(writer_at_dispatch(seq), stmt, flag, types, b))

SendLongData ==
    \E seq \in InSeqs, stmt \in StmtIds, param \in ParamIdx, data \in Payloads :
        /\ nlong < MaxLongData
        /\ RunIteration(seq, Cmd("SendLongData", stmt, param, data, FALSE, NoTypes, NoText),
                        arm_send_long_data(writer_at_dispatch(seq), stmt, param, data))

Close ==
    \E seq \in InSeqs, stmt \in StmtIds :
        RunIteration(seq, Cmd("Close", stmt, 0, <<>>, FALSE, NoTypes, NoText),
                     arm_close(writer_at_dispatch(seq), stmt))

ListFields ==
    \E seq \in InSeqs :
        RunIteration(seq, Cmd("ListFields", 0, 0, <<>>, FALSE, NoTypes, NoText),
                     arm_list_fields(writer_at_dispatch(seq)))

InitDb ==
    \E seq \in InSeqs, schema \in {<<"a">>, <<BAD>>} :
      \E b \in (IF from_utf8_ok(schema) THEN InitBackends ELSE {NoBackend}) :
        RunIteration(seq, Cmd("Init", 0, 0, <<>>, FALSE, NoTypes, schema),
                     arm_init(writer_at_dispatch(seq), schema, b))

Ping ==
    \E seq \in InSeqs :
        RunIteration(seq, Cmd("Ping", 0, 0, <<>>, FALSE, NoTypes, NoText),
                     arm_ping(writer_at_dispatch(seq)))

Quit ==
    \E seq \in InSeqs :
        RunIteration(seq, Cmd("Quit", 0, 0, <<>>, FALSE, NoTypes, NoText),
                     arm_quit(writer_at_dispatch(seq)))

\* line 389: commands::parse(&packet).unwrap() on a packet that is no command
BadPacket ==
    /\ phase = "Command"
    /\ nread < MaxCmds
    /\ \E seq \in InSeqs : \E ovf \in Overflows(seq) :
         LET sp == seq_plus_1(seq, ovf)
         IN /\ writer' = IF sp.panic THEN writer ELSE run_set_seq(writer, sp.val)
            /\ result' = IF sp.panic THEN Panic("seq + 1 overflows") ELSE Panic("parse unwrap")
            /\ last' = LastRec("Unknown", seq, 0, FALSE,
                               IF sp.panic THEN <<<<"read", seq>>>>
                               ELSE <<<<"read", seq>>, <<"set_seq", sp.val>>>>, NoSeen, NoPrev)
    /\ phase' = "Closed"
    /\ nread' = nread + 1
    /\ wire' = <<>>
    /\ UNCHANGED <<stmts, nlong, live, closed, arrived, conn, io>>

\* line 387: reader.next() gives Ok(None): the peer closed between two packets
ReadEof ==
    /\ phase = "Command"
    /\ phase' = "Closed"
    /\ result' = RetOk
    /\ wire' = <<>>
    /\ last' = LastRec("Eof", 0, 0, FALSE, <<<<"read_eof", 0>>>>, NoSeen, NoPrev)
    /\ UNCHANGED <<writer, stmts, nread, nlong, live, closed, arrived, conn, io>>

\* line 387: reader.next()? fails (the stream ends inside a packet, or the transport fails)
ReadError ==
    /\ phase = "Command"
    /\ phase' = "Closed"
    /\ result' = Err("io")
    /\ wire' = <<>>
    /\ last' = LastRec("ReadError", 0, 0, FALSE, <<<<"read_failed", 0>>>>, NoSeen, NoPrev)
    /\ UNCHANGED <<writer, stmts, nread, nlong, live, closed, arrived, conn, io>>

Next ==
    \/ Handshake
    \/ LoopHead
    \/ Query
    \/ Prepare
    \/ Execute
    \/ SendLongData
    \/ Close
    \/ ListFields
    \/ InitDb
    \/ Ping
    \/ Quit
    \/ BadPacket
    \/ ReadEof
    \/ ReadError

Spec == Init /\ [][Next]_vars

-----------------------------------------------------------------------------
(* Reading the observation of a step *)

CommandOps ==
    {"Query", "Prepare", "Execute", "SendLongData", "Close", "ListFields", "Init", "Ping",
     "Quit"}
Callbacks == {"on_query", "on_prepare", "on_execute", "on_close", "on_init"}

HasEventIn(obs, name) == \E i \in 1..Len(obs.events) : obs.events[i][1] = name
HasEvent(name) == HasEventIn(last, name)
CountEvent(name) == Cardinality({i \in 1..Len(last.events) : last.events[i][1] = name})
CallbackIn(obs) == \E i \in 1..Len(obs.events) : obs.events[i][1] \in Callbacks
\* the step got as far as commands::parse: the loop holds a command
ParsedIn(obs) == obs.op \in CommandOps /\ HasEventIn(obs, "parse")
Parsed == ParsedIn(last)
OnWire(kind) == \E i \in 1..Len(wire) : wire[i].kind = kind
BufferOf(long_data, p) == IF p \in DOMAIN long_data THEN long_data[p] ELSE <<>>

-----------------------------------------------------------------------------
\* C1: for a command packet with sequence id s, set_seq(s + 1) comes after the read and
\* before the dispatch, the packets of the response carry s + 1, s + 2, ... (mod 256),
\* and the writer is left behind the last of them; the ids depend on s alone, not on
\* where the previous response left the writer.
C1_OutboundSeqFollowsInbound ==
    Parsed =>
        /\ last.events[1][1] = "read" /\ last.events[1][2] = last.seq
        /\ last.events[2][1] = "set_seq" /\ last.events[2][2] = (last.seq + 1) % 256
        /\ \A i \in 1..Len(last.events) : last.events[i][1] \in Callbacks => i > 2
        /\ \A i \in 1..Len(wire) : wire[i].seq = (last.seq + i) % 256
        /\ (phase = "AfterStep" => writer.seq = (last.seq + 1 + Len(wire)) % 256)

\* a second command whose response has several packets
C1_Witness ==
    /\ Parsed /\ phase = "AfterStep" /\ nread = 2
    /\ Len(wire) >= 3 /\ wire[1].seq = 1 /\ wire[3].seq = 3

\* C2: the outbound id derived from an inbound id s is (s + 1) mod 256 for every s, in
\* the handshake and in the loop; s = 255 gives 0 and the connection is served on.
C2_NextSeqIsMod256 ==
    /\ result # Panic("seq + 1 overflows")
    /\ (last.op \in CommandOps \cup {"Unknown"} =>
            \E i \in 1..Len(last.events) :
                last.events[i][1] = "set_seq" /\ last.events[i][2] = (last.seq + 1) % 256)

\* what a completed handshake leaves behind: the greeting first, the OK last
HandshakeCompleted ==
    /\ Len(wire) >= 2 /\ wire[1].kind = "GREETING" /\ wire[Len(wire)].kind = "OK"
    /\ Len(last.events) >= 6
    /\ last.events[1][1] = "write_greeting" /\ last.events[2][1] = "flush"
    /\ HasEvent("parse")
    /\ last.events[Len(last.events) - 1][1] = "write_ok"
    /\ last.events[Len(last.events)][1] = "flush"

\* C3: init ends in the loop only with the greeting flushed, a handshake parsed and the
\* OK flushed as the last packet; no command is read and no callback made before that;
\* a peer that closes, or a handshake that does not parse, ends run_on with an error and
\* without an OK.
C3_HandshakeBeforeCommands ==
    /\ (phase = "Handshake" => nread = 0 /\ last = Nothing /\ wire = <<>>)
    /\ (last.op \in CommandOps => nread >= 1)
    /\ (last.op = "init" =>
          /\ nread = 0
          /\ ~CallbackIn(last)
          /\ (phase # "Closed" => HandshakeCompleted)
          /\ (result \in {Err("ConnectionAborted"), Err("UnexpectedEof"), Err("InvalidData")}
                => phase = "Closed" /\ ~OnWire("OK")))

\* the peer closed after the greeting: an error, the greeting alone on the wire
C3_Witness ==
    /\ last.op = "init" /\ phase = "Closed" /\ result = Err("ConnectionAborted")
    /\ Len(wire) = 1 /\ wire[1].kind = "GREETING"

\* the end of run on QUIT and on end-of-stream
C4_Ended ==
    /\ (last.op = "Quit" /\ Parsed =>
            phase = "Closed" /\ result = RetOk /\ ~CallbackIn(last) /\ wire = <<>>)
    /\ (last.op = "Eof" =>
            phase = "Closed" /\ result = RetOk /\ ~CallbackIn(last) /\ wire = <<>>)

\* C4: a QUIT, or end-of-stream between two packets, ends run with Ok(()): no callback
\* is made for it, nothing is written, and no step follows the end of run.
C4_QuitOrEofEndsLoop == [](C4_Ended) /\ [][phase # "Closed"]_vars

C4_Witness == last.op = "Quit" /\ Parsed /\ phase = "Closed" /\ result = RetOk /\ nread = 2

\* C5: an iteration that ends without error and is not a QUIT reads once, first, and
\* flushes once, last, with every callback in between; nothing is pending in the writer
\* when the next packet is read.
C5_OneCommandAtATime ==
    /\ (Parsed /\ phase = "AfterStep" =>
          /\ CountEvent("read") = 1 /\ last.events[1][1] = "read"
          /\ CountEvent("flush") = 1 /\ last.events[Len(last.events)][1] = "flush"
          /\ writer.buf = <<>>)
    /\ (phase = "Command" => writer.buf = <<>> /\ last = Nothing)

C5_Witness ==
    /\ Parsed /\ phase = "AfterStep" /\ nread = 2
    /\ HasEvent("on_query") /\ Len(wire) >= 1

\* the table against the history of replies and closes
C6_TableIsLive ==
    /\ DOMAIN stmts = live
    /\ (phase = "Handshake" \/ last.op = "init" => stmts = EmptyMap)

\* C6: the ids of the table are the ids a PREPARE reply registered and no CLOSE removed
\* since; the table is empty when run starts; no command but PREPARE and CLOSE changes
\* the set of ids.
C6_StatementTable ==
    /\ [](C6_TableIsLive)
    /\ [][(nread' = nread + 1
           /\ last'.op \in {"Query", "Ping", "Init", "ListFields", "SendLongData", "Execute"})
          => DOMAIN stmts' = DOMAIN stmts]_vars

\* two ids registered, one of them closed
C6_Witness ==
    /\ last.op = "Close" /\ Parsed /\ last.stmt = 1
    /\ DOMAIN stmts = {2} /\ closed = {1} /\ nread = 3

\* C7: a closed id is not in the table, and an EXECUTE of an id that was closed and not
\* registered again ends run with an error without a call of on_execute.
C7_ExecuteAfterClose ==
    /\ (last.op = "Close" /\ Parsed => last.stmt \notin DOMAIN stmts)
    /\ closed \cap DOMAIN stmts = {}
    /\ (last.op = "Execute" /\ Parsed /\ last.stmt \in closed =>
            phase = "Closed" /\ result.kind = "Err" /\ ~HasEvent("on_execute"))

C7_Witness ==
    /\ last.op = "Execute" /\ Parsed /\ last.stmt \in closed
    /\ result = Err("InvalidData: unknown statement") /\ nread = 3

\* C8, as the specification has it: an EXECUTE or SEND_LONG_DATA for an id that is not
\* in the table is answered with an ERR packet and the loop goes on.
C8_UnknownStatementReported ==
    (last.op \in {"Execute", "SendLongData"} /\ Parsed /\ last.stmt \notin DOMAIN stmts)
        => phase = "AfterStep" /\ OnWire("ERR")

\* C8, amended: an EXECUTE or SEND_LONG_DATA for an id that is not in the table ends run
\* with an InvalidData error; nothing is written to the client, no callback is made, the
\* table is not changed and no further command is served.
C8_UnknownStatementEndsRun ==
    [][(nread' = nread + 1 /\ last'.op \in {"Execute", "SendLongData"} /\ ParsedIn(last')
        /\ last'.stmt \notin DOMAIN stmts)
       => /\ result' = Err("InvalidData: unknown statement")
          /\ phase' = "Closed"
          /\ wire' = <<>> /\ writer'.buf = <<>>
          /\ ~CallbackIn(last')
          /\ stmts' = stmts]_vars

C8_Witness ==
    /\ last.op = "SendLongData" /\ Parsed /\ last.stmt \notin DOMAIN stmts
    /\ result = Err("InvalidData: unknown statement") /\ phase = "Closed"
    /\ stmts # EmptyMap

\* an iteration that called on_execute
ExecuteStep == nread' = nread + 1 /\ last'.op = "Execute" /\ HasEventIn(last', "on_execute")

\* C9: after an EXECUTE whose on_execute returned, if the loop goes on the statement's
\* long_data is empty; its bound_types are as before unless the EXECUTE had
\* new-params-bound set; its params is as before; every other statement is as before.
C9_ExecuteFrame ==
    [][ExecuteStep =>
        LET id == last'.stmt
        IN /\ DOMAIN stmts' = DOMAIN stmts
           /\ (phase' = "AfterStep" => stmts'[id].long_data = EmptyMap)
           /\ (~last'.flag => stmts'[id].bound_types = stmts[id].bound_types)
           /\ stmts'[id].params = stmts[id].params
           /\ \A other \in DOMAIN stmts \ {id} : stmts'[other] = stmts[other]]_vars

\* long data was sent, the EXECUTE saw it, and it is gone
C9_Witness ==
    /\ last.op = "Execute" /\ HasEvent("on_execute") /\ phase = "AfterStep"
    /\ last.seen # EmptyMap
    /\ stmts[last.stmt].long_data = EmptyMap

\* C10: the long_data on_execute is given holds, for each parameter, the payloads of the
\* SEND_LONG_DATA packets for that statement and parameter since its last on_execute or
\* PREPARE reply, concatenated in arrival order, and a buffer for no other parameter.
C10_LongDataIsConcatenation ==
    [][ExecuteStep =>
        \A p \in ParamIdx :
            /\ BufferOf(last'.seen, p) = Flatten(arrived[last'.stmt][p])
            /\ (p \in DOMAIN last'.seen <=> arrived[last'.stmt][p] # <<>>)]_vars

\* two packets for one parameter, seen in the order they came
C10_Witness ==
    /\ last.op = "Execute" /\ HasEvent("on_execute")
    /\ DOMAIN last.seen = {0} /\ last.seen[0] = <<2, 3, 1>>

-----------------------------------------------------------------------------
(* Reading the observation of a QUERY *)

\* the text of the command the step parsed
TextOf(obs) ==
    obs.events[CHOOSE i \in 1..Len(obs.events) : obs.events[i][1] = "parse"][2]
QueryStep == last.op = "Query" /\ Parsed
IsSelectVar(q) == starts_with(q, T_SELECT_AT) \/ starts_with(q, T_select_at)
IsUse(q) == starts_with(q, T_USE) \/ starts_with(q, T_use)
VarOf(q) == SubSeq(q, Len(T_SELECT_AT) + 1, Len(q))
\* the packets of the step's response, without their sequence ids
Payloads_on_wire == [i \in 1..Len(wire) |-> Pkt(wire[i].kind, wire[i].info)]
\* what the callback of the step did with its handle, "" when there was no callback
HandleUse ==
    IF HasEvent("handle")
    THEN last.events[CHOOSE i \in 1..Len(last.events) : last.events[i][1] = "handle"][2]
    ELSE ""
\* the packets a backend that used its handle that way wrote
WrittenBy(use) == backend_writes(PacketWriter_new, Backend(use, "Ok", 0, 0, FALSE)).buf
ArgsOf(name) ==
    {last.events[i][2] : i \in {j \in 1..Len(last.events) : last.events[j][1] = name}}

\* C11: a QUERY `SELECT @@max_allowed_packet` makes no callback and, when the iteration
\* ends in its flush, has put on the wire one UNSIGNED LONG column definition, EOF, one
\* row holding 67108864, EOF; the only way it fails is the transport failing the flush.
C11_MaxAllowedPacket ==
    (QueryStep /\ IsSelectVar(TextOf(last)) /\ VarOf(TextOf(last)) = T_max_allowed_packet) =>
        /\ ~CallbackIn(last)
        /\ result \in {Running, Err("io")}
        /\ (phase = "AfterStep" <=> result = Running)
        /\ (phase = "AfterStep" =>
              /\ Len(wire) = 4
              /\ wire[1].kind = "COLDEF"
              /\ wire[1].info.coltype = "MYSQL_TYPE_LONG"
              /\ wire[1].info.colflags = "UNSIGNED_FLAG"
              /\ wire[2].kind = "EOF"
              /\ wire[3].kind = "ROW" /\ wire[3].info = 67108864
              /\ wire[4].kind = "EOF")

C11_Witness ==
    /\ QueryStep /\ TextOf(last) = T_SELECT_AT \o T_max_allowed_packet
    /\ phase = "AfterStep" /\ Len(wire) = 4 /\ wire[3].kind = "ROW"

\* C12: a QUERY that starts with `SELECT @@` and names another variable makes no
\* callback and, when the iteration ends in its flush, has put exactly one OK with 0
\* affected rows and last-insert-id 0 on the wire.
C12_OtherVariablesCompleted ==
    (QueryStep /\ IsSelectVar(TextOf(last)) /\ VarOf(TextOf(last)) # T_max_allowed_packet) =>
        /\ ~HasEvent("on_query") /\ ~CallbackIn(last)
        /\ result \in {Running, Err("io")}
        /\ (phase = "AfterStep" <=> result = Running)
        /\ (phase = "AfterStep" => Payloads_on_wire = <<Pkt("OK", <<0, 0>>)>>)

\* the variable is max_allowed_packet with a semicolon after it
C12_Witness ==
    /\ QueryStep /\ TextOf(last) = T_SELECT_AT \o T_max_allowed_packet \o <<";">>
    /\ phase = "AfterStep" /\ Len(wire) = 1 /\ wire[1].kind = "OK"

\* a QUERY the loop hands to on_query: once, with the text as it came, and nothing on
\* the wire but what the backend wrote through its handle
HandedToOnQuery ==
    /\ CountEvent("on_query") = 1
    /\ ArgsOf("on_query") = {TextOf(last)}
    /\ ~HasEvent("on_init")
    /\ (phase = "AfterStep" => Payloads_on_wire = WrittenBy(HandleUse))
    /\ (phase = "Closed" => wire = <<>>)

\* C13, as the specification has it: every QUERY that is neither `SELECT @@...` nor
\* `USE ...` gives exactly one on_query call with the text unmodified and no response
\* of the loop's own; an intercepted query never reaches on_query.
C13_EveryOtherQueryReachesOnQuery ==
    QueryStep =>
        IF IsSelectVar(TextOf(last)) \/ IsUse(TextOf(last))
        THEN ~HasEvent("on_query")
        ELSE HandedToOnQuery

\* C13, amended: the same for every QUERY whose text is valid UTF-8; one whose text is
\* not valid UTF-8 ends run with an InvalidData error, without a callback and without a
\* response.
C13_Utf8QueriesReachOnQuery ==
    QueryStep =>
        IF IsSelectVar(TextOf(last)) \/ IsUse(TextOf(last))
        THEN ~HasEvent("on_query")
        ELSE IF from_utf8_ok(TextOf(last))
        THEN HandedToOnQuery
        ELSE /\ ~CallbackIn(last)
             /\ phase = "Closed" /\ result = Err("InvalidData")
             /\ wire = <<>> /\ writer.buf = <<>>

\* a query whose backend wrote a result set, and it alone is on the wire
C13_Witness ==
    /\ QueryStep /\ TextOf(last) = <<"S","E","L","E","C","T"," ","1">>
    /\ HasEvent("on_query") /\ HandleUse = "rows" /\ phase = "AfterStep"
    /\ Len(wire) = 4

-----------------------------------------------------------------------------
(* `USE <schema>` queries: a name with every combination of surrounding     *)
(* whitespace, trailing semicolon and backtick quotes, and the connection   *)
(* that is sent only such queries.                                          *)

UseNames == {<<"a">>, <<"a", "c">>}
UseLead == {<<>>, <<" ">>, <<"\t", " ">>}
UseTrail == {<<>>, <<" ">>, <<"\n">>}
Decorated(prefix, lead, quoted, semi, trail, name) ==
    prefix \o lead
    \o (IF quoted THEN <<BACKTICK>> \o name \o <<BACKTICK>> ELSE name)
    \o (IF semi THEN <<";">> ELSE <<>>)
    \o trail
UseCases ==
    { [text |-> Decorated(p, l, q, m, t, n), name |-> n] :
        p \in {T_USE, T_use}, l \in UseLead, q \in BOOLEAN, m \in BOOLEAN,
        t \in UseTrail, n \in UseNames }

UseQuery ==
    \E seq \in InSeqs, c \in UseCases :
      \E b \in InitBackends :
        RunIteration(seq, Cmd("Query", 0, 0, <<>>, FALSE, NoTypes, c.text),
                     arm_query(writer_at_dispatch(seq), c.text, b))

UseNext ==
    \/ Handshake
    \/ LoopHead
    \/ UseQuery

UseSpec == Init /\ [][UseNext]_vars

C15_DefaultOnInitRepliesOk ==
    (Parsed /\ last.op \in {"Init", "Query"} /\ HasEvent("on_init")
     /\ HandleUse = DefaultOnInit.writes /\ phase = "AfterStep")
        => OnWire("OK")

-----------------------------------------------------------------------------
(* The capability flags of the greeting: the lower two bytes and the upper  *)
(* two, least significant byte first, as one 32-bit set of flags.           *)

CLIENT_PROTOCOL_41 == 2 ^ 9
CLIENT_SSL == 2 ^ 11
CLIENT_SECURE_CONNECTION == 2 ^ 15
CLIENT_MULTI_RESULTS == 2 ^ 17
FlagsOf(bytes) == bytes[1] + 256 * bytes[2] + 65536 * bytes[3] + 16777216 * bytes[4]
HasFlag(flags, f) == (flags \div f) % 2 = 1
\* init got as far as putting the greeting on the transport
Greeted == last.op = "init" /\ Len(wire) >= 1 /\ wire[1].kind = "GREETING"
GreetingFlags == FlagsOf(wire[1].info)

\* C16: the greeting has the SSL flag exactly when the backend's tls_config() gives a
\* configuration; the first packet init puts on the transport is the greeting.
C16_SslFlagIffTlsConfig ==
    /\ (last.op = "init" /\ wire # <<>> => Greeted)
    /\ (Greeted => (HasFlag(GreetingFlags, CLIENT_SSL) <=> last.cfg.some))

C16_Witness == Greeted /\ last.cfg.some /\ HasFlag(GreetingFlags, CLIENT_SSL)

\* C17: the greeting always has the flags protocol 4.1 and secure connection (4.1
\* authentication), and never multi-results, with or without a TLS configuration.
C17_FixedCapabilities ==
    Greeted =>
        /\ HasFlag(GreetingFlags, CLIENT_PROTOCOL_41)
        /\ HasFlag(GreetingFlags, CLIENT_SECURE_CONNECTION)
        /\ ~HasFlag(GreetingFlags, CLIENT_MULTI_RESULTS)

-----------------------------------------------------------------------------
(* The end of the handshake *)

\* init parsed the client's first handshake packet and set the writer's id from it
HandshakeParsed == last.op = "init" /\ HasEvent("set_seq")
RequireTls == last.cfg.some /\ last.cfg.require_tls
\* the last packet init put on the transport
LastOnWire == wire[Len(wire)]

\* C18: a client without the SSL bit, a configuration with require_tls: init writes and
\* flushes an ER_ACCESS_DENIED_ERROR packet (unless the transport fails the flush), sends
\* no OK, returns an error, and run is not entered.  Without require_tls, or without a
\* configuration, such a client gets the OK and run is entered (unless the flush fails).
C18_RequireTls ==
    (HandshakeParsed /\ ~last.flag) =>
        IF RequireTls
        THEN /\ phase = "Closed" /\ nread = 0
             /\ ~OnWire("OK")
             /\ last.events[Len(last.events) - 1][1] = "write_err"
             /\ result \in {Err("client authentication failed"), Err("io")}
             /\ (result = Err("client authentication failed") =>
                    /\ HasEvent("flush") /\ Len(wire) = 2
                    /\ LastOnWire.kind = "ERR"
                    /\ LastOnWire.info = "ER_ACCESS_DENIED_ERROR"
                    /\ LastOnWire.seq = (last.seq + 1) % 256)
             /\ (result = Err("io") => last.events[Len(last.events)][1] = "flush_failed")
        ELSE /\ ~OnWire("ERR")
             /\ result \in {Running, Err("io")}
             /\ (result = Running =>
                    phase = "AfterStep" /\ LastOnWire.kind = "OK" /\ last.conn = "Plain")
             /\ (result = Err("io") => phase = "Closed" /\ ~OnWire("OK"))

C18_Witness ==
    /\ HandshakeParsed /\ ~last.flag /\ RequireTls
    /\ result = Err("client authentication failed") /\ phase = "Closed"
    /\ Len(wire) = 2 /\ wire[2].kind = "ERR"

\* C19, as the specification has it: a client with the SSL bit and a backend without a
\* TLS configuration: the client is sent an ACCESS_DENIED ERR packet, no OK, and run is
\* not entered.
C19_SslWithoutConfigDenied ==
    (HandshakeParsed /\ last.flag /\ ~last.cfg.some) =>
        /\ phase = "Closed" /\ ~OnWire("OK")
        /\ OnWire("ERR") /\ LastOnWire.info = "ER_ACCESS_DENIED_ERROR"

\* C19, amended: init returns an InvalidData error; after the greeting nothing is sent
\* to the client, neither ERR nor OK; the stream is not switched and run is not entered.
C19_SslWithoutConfigEndsInit ==
    (HandshakeParsed /\ last.flag /\ ~last.cfg.some) =>
        /\ phase = "Closed" /\ nread = 0
        /\ result = Err("InvalidData")
        /\ Len(wire) = 1 /\ wire[1].kind = "GREETING" /\ writer.buf = <<>>
        /\ ~HasEvent("switch_to_tls") /\ ~HasEvent("write_err") /\ ~HasEvent("write_ok")
        /\ last.conn = "Plain"

C19_Witness ==
    /\ HandshakeParsed /\ last.flag /\ ~last.cfg.some
    /\ result = Err("InvalidData") /\ Len(wire) = 1

\* C20: when the client's first handshake packet has the SSL bit and the reader holds
\* bytes beyond it, init still switches the stream to TLS and the connection is not
\* aborted.
C20_ReadAheadSurvivesSwitch ==
    (last.op = "init" /\ HasEvent("read_ahead")) =>
        /\ HasEvent("switch_to_tls")
        /\ result.kind # "Panic"
        /\ last.conn = "Tls"

-----------------------------------------------------------------------------
(* Errors of the loop, CLOSE, and the order of the TLS handshake *)

\* C21: a command packet with an opcode commands::parse does not know ends run with an
\* error the loop returns, without a callback.
C21_UnknownOpcodeIsProtocolError ==
    (last.op = "Unknown" /\ HasEvent("set_seq")) =>
        /\ phase = "Closed"
        /\ result.kind = "Err"
        /\ ~CallbackIn(last)

\* a callback of the step returned an error
BackendFailed ==
    /\ Parsed
    /\ \E i \in 1..Len(last.events) :
          last.events[i][1] = "returned" /\ last.events[i][2] = "Err"
C22_Ended ==
    BackendFailed =>
        /\ phase = "Closed" /\ result = Err("backend")
        /\ last.events[Len(last.events)][1] = "returned"
        /\ Cardinality({i \in 1..Len(last.events) : last.events[i][1] \in Callbacks}) = 1
        /\ wire = <<>>

\* C22: when on_query, on_prepare, on_execute or on_init returns an error, run returns
\* that error; the callback's return is the last thing the iteration does (no flush),
\* it was the only callback of the iteration, and run reads and calls nothing afterwards.
C22_BackendErrorEndsRun ==
    [](C22_Ended) /\ [][phase = "Closed" => UNCHANGED <<nread, last, result>>]_vars

C22_Witness ==
    /\ last.op = "Execute" /\ BackendFailed /\ HasEvent("on_execute")
    /\ result = Err("backend") /\ phase = "Closed"

\* C23: a CLOSE calls on_close exactly once with its id, whether or not the id is in the
\* table; the arm does not fail (the iteration reaches its flush) and puts nothing in the
\* writer, so nothing goes to the client.
C23_CloseIsSilent ==
    (last.op = "Close" /\ Parsed) =>
        /\ CountEvent("on_close") = 1
        /\ ArgsOf("on_close") = {last.stmt}
        /\ wire = <<>> /\ writer.buf = <<>>
        /\ result \in {Running, Err("io")}
        /\ (result = Running => phase = "AfterStep" /\ HasEvent("flush"))
        /\ (result = Err("io") => HasEvent("flush_failed"))

\* the first command of the connection is a CLOSE: its id was never prepared
C23_Witness ==
    /\ last.op = "Close" /\ Parsed /\ nread = 1 /\ last.stmt = 2
    /\ phase = "AfterStep" /\ HasEvent("on_close")

\* C24, as the specification has it: the OK that ends a successful handshake has
\* sequence id 2 and affected_rows 0, on the plaintext and on the TLS path.
C24_OkNumbered2 ==
    (last.op = "init" /\ phase = "AfterStep") =>
        /\ LastOnWire.kind = "OK"
        /\ LastOnWire.seq = 2
        /\ LastOnWire.info[1] = 0

\* the sequence id of the last handshake packet init read
LastHandshakeSeq == IF last.conn = "Tls" THEN last.stmt ELSE last.seq

\* C24, amended: the OK has the sequence id of the last handshake packet read plus one
\* (mod 256) and affected_rows 0: 2 on the plaintext path for a handshake packet numbered
\* 1, 3 on the TLS path for a second handshake packet numbered 2.
C24_OkFollowsLastHandshake ==
    (last.op = "init" /\ phase = "AfterStep") =>
        /\ LastOnWire.kind = "OK"
        /\ LastOnWire.info = <<0, 0>>
        /\ LastOnWire.seq = (LastHandshakeSeq + 1) % 256
        /\ (last.conn = "Plain" /\ last.seq = 1 => LastOnWire.seq = 2)
        /\ (last.conn = "Tls" /\ last.stmt = 2 => LastOnWire.seq = 3)

C24_Witness ==
    /\ last.op = "init" /\ phase = "AfterStep" /\ last.conn = "Tls"
    /\ last.seq = 1 /\ last.stmt = 2
    /\ LastOnWire.kind = "OK" /\ LastOnWire.seq = 3

PositionsOf(name) == {i \in 1..Len(last.events) : last.events[i][1] = name}

\* C26: after_tls_handshake is called at most once, in init only, on the TLS stream only
\* and only when client_certs() gave certificates; the switch, the parse of the second
\* handshake packet and set_seq come before it, the OK after it; no command has been
\* read and no command callback made by then.
C26_AfterTlsHandshake ==
    /\ CountEvent("after_tls_handshake") <= 1
    /\ (last.op = "init" /\ HasEvent("certs_none") => ~HasEvent("after_tls_handshake"))
    /\ (HasEvent("after_tls_handshake") =>
          /\ last.op = "init" /\ nread = 0 /\ ~CallbackIn(last)
          /\ last.conn = "Tls" /\ last.flag /\ last.cfg.some
          /\ \A i \in PositionsOf("after_tls_handshake") :
                /\ last.events[i - 1][1] = "certs_some"
                /\ \E s \in PositionsOf("switch_to_tls") :
                     \E p \in PositionsOf("parse"), q \in PositionsOf("set_seq") :
                        s < p /\ p < q /\ q < i
                /\ \A k \in PositionsOf("write_ok") : i < k)

C26_Witness ==
    /\ last.op = "init" /\ HasEvent("after_tls_handshake") /\ phase = "AfterStep"
    /\ LastOnWire.kind = "OK"

-----------------------------------------------------------------------------
(* The calls on a SwitchableConn, in any order, until one panics *)

main_vars ==
    <<phase, result, writer, wire, stmts, nread, nlong, last, live, closed, arrived>>

ConnRead ==
    /\ io.ret # "Panic"
    /\ \E n \in ReadSizes :
         \E k \in InnerReads(conn.rd.inner, n) :
           LET r == SwitchableConn_read(conn, n, k)
               m == Smaller(Len(r.got), Len(io.owed))
           IN /\ conn' = r.c
              /\ io' = Called("read", r.ret, r.got, SubSeq(io.owed, 1, m),
                              SubSeq(io.owed, m + 1, Len(io.owed)), io.nrep, r.c)
    /\ UNCHANGED main_vars

ConnWrite ==
    /\ io.ret # "Panic"
    /\ LET r == SwitchableConn_write(conn)
       IN /\ conn' = r.c
          /\ io' = Called("write", r.ret, <<>>, <<>>, io.owed, io.nrep, r.c)
    /\ UNCHANGED main_vars

ConnFlush ==
    /\ io.ret # "Panic"
    /\ LET r == SwitchableConn_flush(conn)
       IN /\ conn' = r.c
          /\ io' = Called("flush", r.ret, <<>>, <<>>, io.owed, io.nrep, r.c)
    /\ UNCHANGED main_vars

ConnReplace ==
    /\ io.ret # "Panic"
    /\ io.nrep < MaxReplace
    /\ \E data \in ReplaceData :
         LET r == SwitchableConn_replace(conn, data)
         IN /\ conn' = r.c
            /\ io' = Called("replace", r.ret, <<>>, <<>>,
                            IF r.ret.kind = "Ok" THEN data \o io.owed ELSE io.owed,
                            io.nrep + 1, r.c)
    /\ UNCHANGED main_vars

SwitchToTls ==
    /\ io.ret # "Panic"
    /\ \E cfgok \in BOOLEAN :
         LET r == switch_to_tls(conn, cfgok)
         IN /\ conn' = r.c
            /\ io' = Called("switch_to_tls", r.ret, <<>>, <<>>, io.owed, io.nrep, r.c)
    /\ UNCHANGED main_vars

ConnNext ==
    \/ ConnRead
    \/ ConnWrite
    \/ ConnFlush
    \/ ConnReplace
    \/ SwitchToTls

ConnSpec == Init /\ [][ConnNext]_vars

\* C25: every read of the BufReader hands out the bytes that are due: those of the most
\* recent replace first, then the unread ones of earlier replace calls, then the inner
\* stream's; none is skipped and none handed out twice.
C25_ReadsGiveTheBytesDue ==
    (io.op = "read" /\ io.ret = "Ok") => io.got = io.due

\* C27: whatever calls were made, and whatever switch_to_tls returned, conn holds a
\* variant, read, write and flush find one to unwrap, and the variants it has held are
\* Plain, or Plain and then Tls.
C27_AlwaysHoldsAConnection ==
    /\ (io.ret \in {"Ok", "Err"} => conn.slot # "None")
    /\ ~(io.op \in {"read", "write", "flush"} /\ io.ret = "Panic")
    /\ io.variants \in {<<"Plain">>, <<"Plain", "Tls">>}

====
